---- MODULE Spec2Model ----
(***************************************************************************)
(* Model of the deep-finder content UI (pages/content-ui/src/App.tsx):     *)
(* the rule compiler and scanner (highlightText), the highlight manager    *)
(* (surroundContents / clearHighlights) and the navigation controller      *)
(* (handleNextMark, handlePreviousMark, handleClosestMark), together with  *)
(* the React state of App and the callbacks it defers with setTimeout.     *)
(*                                                                         *)
(* A text is a sequence of one-character strings.  The document is a       *)
(* sequence of elements (children of body); an element holds a sequence    *)
(* of child nodes, each a text node (id = 0) or a <mark> element created   *)
(* by the engine (id > 0) that holds its text content.                     *)
(***************************************************************************)
EXTENDS Integers, Sequences, FiniteSets, TLC

(***************************************************************************)
(* Bounds of the model                                                     *)
(***************************************************************************)
\* setTimeout callbacks that may be pending at once
MaxTimers == 3
\* next and previous are issued while the active index lies within
\* -MaxIndex..MaxIndex
MaxIndex == 2

(***************************************************************************)
(* Characters and texts                                                    *)
(***************************************************************************)
EmptyText == << >>

\* a test for the empty string that forgets trim()
IsBlankNoTrim(t) == t = << >>

\* String.prototype.trim() leaves nothing: only white space in the text
IsBlank(t) == \A i \in 1..Len(t) : t[i] = " "

\* the characters the escape of App.tsx:59 puts a backslash before
\* (those of them that the texts of the model use)
MetaChars == {".", "(", "\\"}

\* the letters of the texts of the model
LowerCase == {"a", "b", "c", "e", "g", "o", "r", "s", "t", "y"}
UpperCase == {"A", "B", "C"}

\* \w of the regular expression: a word character
IsWordChar(c) == c \in LowerCase \cup UpperCase

\* canonical case of a character, for the `i' flag
Fold(c) == CASE c = "A" -> "a" [] c = "B" -> "b" [] c = "C" -> "c" [] OTHER -> c

RECURSIVE Concat(_)
Concat(ss) == IF ss = << >> THEN << >> ELSE Head(ss) \o Concat(Tail(ss))

(***************************************************************************)
(* Rule compiler: highlightText, App.tsx:54-72                             *)
(***************************************************************************)
\* a compiler that leaves the metacharacters of the query as they are
EscapeNothing(t) == t

\* text.replace(/[.*+?^${}()|[\]\\]/g, '\\$&')
RECURSIVE EscapeRegex(_)
EscapeRegex(t) ==
    IF t = << >> THEN << >>
    ELSE (IF Head(t) \in MetaChars THEN <<"\\", Head(t)>> ELSE <<Head(t)>>)
         \o EscapeRegex(Tail(t))

\* a compiler that escapes the query in regex mode too
PatternSourceAlwaysEscaped(text, options) ==
    LET escaped == EscapeRegex(text)
    IN IF options.wholeWord THEN <<"\\", "b">> \o escaped \o <<"\\", "b">>
       ELSE escaped

\* a compiler that puts the word boundaries around a regex too
PatternSourceWholeWordInRegex(text, options) ==
    LET source == IF ~options.useRegex THEN EscapeRegex(text) ELSE text
    IN IF options.wholeWord THEN <<"\\", "b">> \o source \o <<"\\", "b">>
       ELSE source

\* a compiler that forgets the whole-word option
PatternSourceNoWholeWord(text, options) ==
    IF ~options.useRegex THEN EscapeRegex(text) ELSE text

\* the pattern source handed to new RegExp
PatternSource(text, options) ==
    IF ~options.useRegex
    THEN LET escaped == EscapeRegex(text)
         IN IF options.wholeWord THEN <<"\\", "b">> \o escaped \o <<"\\", "b">>
            ELSE escaped
    ELSE text

\* flags that always hold i
IgnoreCaseAlways(options) == TRUE

\* the flags handed to new RegExp: always g, plus i unless preserveCase
IgnoreCase(options) == ~options.preserveCase

\* new RegExp(source): the atoms of the pattern, or a syntax error (ok =
\* FALSE).  An atom is a literal character, the wildcard `.' or the
\* assertion \b.  A "(" that nothing closes and a trailing backslash are
\* syntax errors.
Lit(c) == [k |-> "lit", c |-> c]
AnyChar == [k |-> "any", c |-> "."]
WordBoundary == [k |-> "wb", c |-> "b"]
SyntaxError == [ok |-> FALSE, atoms |-> << >>]

RECURSIVE ParseRegex(_)
ParseRegex(src) ==
    IF src = << >> THEN [ok |-> TRUE, atoms |-> << >>]
    ELSE LET c == Head(src)
         IN IF c = "\\"
            THEN IF Len(src) < 2 THEN SyntaxError
                 ELSE LET rest == ParseRegex(Tail(Tail(src)))
                          atom == IF src[2] = "b" THEN WordBoundary ELSE Lit(src[2])
                      IN IF rest.ok THEN [ok |-> TRUE, atoms |-> <<atom>> \o rest.atoms]
                         ELSE SyntaxError
            ELSE IF c = "(" THEN SyntaxError
            ELSE LET rest == ParseRegex(Tail(src))
                     atom == IF c = "." THEN AnyChar ELSE Lit(c)
                 IN IF rest.ok THEN [ok |-> TRUE, atoms |-> <<atom>> \o rest.atoms]
                    ELSE SyntaxError

\* new RegExp(searchText, flags), App.tsx:72
CompileRule(text, options) == ParseRegex(PatternSource(text, options))

(***************************************************************************)
(* Matching: nodeValue.matchAll(regex), App.tsx:110                        *)
(***************************************************************************)
\* \b at offset p of text t (p characters lie before it)
AtWordBoundary(t, p) ==
    LET before == p >= 1 /\ IsWordChar(t[p])
        after == p < Len(t) /\ IsWordChar(t[p + 1])
    IN before # after

\* the atoms from the j-th on match t at offset p: the offset where the match
\* ends, or -1
RECURSIVE MatchFrom(_, _, _, _, _)
MatchFrom(atoms, j, t, p, ic) ==
    IF j > Len(atoms) THEN p
    ELSE LET a == atoms[j]
         IN IF a.k = "wb"
            THEN IF AtWordBoundary(t, p) THEN MatchFrom(atoms, j + 1, t, p, ic) ELSE -1
            ELSE IF p >= Len(t) THEN -1
            ELSE IF \/ a.k = "any"
                    \/ a.c = t[p + 1]
                    \/ ic /\ Fold(a.c) = Fold(t[p + 1])
                 THEN MatchFrom(atoms, j + 1, t, p + 1, ic)
                 ELSE -1

\* the matches of a global regex in t from lastIndex on, left to right and
\* not overlapping: pairs <<start, end>> of offsets; after an empty match
\* lastIndex advances by one
RECURSIVE MatchAllFrom(_, _, _, _)
MatchAllFrom(atoms, t, lastIndex, ic) ==
    IF lastIndex > Len(t) THEN << >>
    ELSE LET e == MatchFrom(atoms, 1, t, lastIndex, ic)
         IN IF e = -1 THEN MatchAllFrom(atoms, t, lastIndex + 1, ic)
            ELSE <<<<lastIndex, e>>>>
                 \o MatchAllFrom(atoms, t, IF e = lastIndex THEN e + 1 ELSE e, ic)

MatchAll(atoms, t, ic) == MatchAllFrom(atoms, t, 0, ic)

(***************************************************************************)
(* The document                                                            *)
(***************************************************************************)
TextNode(t) == [id |-> 0, text |-> t, bg |-> "none"]
\* document.createElement('mark') with the default colours, App.tsx:125-127
MarkNode(m, t) == [id |-> m, text |-> t, bg |-> "#ffff00"]

\* the height of a line of text
ElemHeight == 1

\* an element of the page: its child nodes, whether its computed style is
\* display none / visibility hidden, whether it lies in .deepfinder-container,
\* the page coordinate of its top edge and its height, and whether an
\* element above it has display: none
Element(kids, hidden, widget, y) ==
    [kids |-> kids, hidden |-> hidden, widget |-> widget, y |-> y, h |-> ElemHeight,
     inHidden |-> FALSE]

\* an element under an ancestor with display: none.  display is not
\* inherited, so the computed style of the element itself is that of a
\* displayed element; it is not rendered and its rectangle is empty.
ElementInHidden(kids) ==
    [Element(kids, FALSE, FALSE, 0) EXCEPT !.h = 0, !.inHidden = TRUE]

\* a visible element of the page that is h high
TallElement(kids, y, h) == [Element(kids, FALSE, FALSE, y) EXCEPT !.h = h]

\* the ids of the marks attached to the document, in pre-order
IsMarkNode(n) == n.id # 0

KidMarkIds(kids) ==
    LET ms == SelectSeq(kids, IsMarkNode) IN [i \in 1..Len(ms) |-> ms[i].id]

RECURSIVE DocMarkIds(_)
DocMarkIds(d) ==
    IF d = << >> THEN << >> ELSE KidMarkIds(Head(d).kids) \o DocMarkIds(Tail(d))

Range(f) == {f[i] : i \in DOMAIN f}

\* the text of the text leaves under the nodes, read in document order
RECURSIVE KidsText(_)
KidsText(kids) ==
    IF kids = << >> THEN << >> ELSE Head(kids).text \o KidsText(Tail(kids))

RECURSIVE DocText(_)
DocText(d) ==
    IF d = << >> THEN << >> ELSE KidsText(Head(d).kids) \o DocText(Tail(d))

\* mark.parentNode: the index of the element holding mark m, 0 when detached
ParentOf(d, m) ==
    LET holders == {e \in 1..Len(d) : \E k \in 1..Len(d[e].kids) : d[e].kids[k].id = m}
    IN IF holders = {} THEN 0 ELSE CHOOSE e \in holders : TRUE

\* the index of the child with id m among kids
KidIndex(kids, m) == CHOOSE k \in 1..Len(kids) : kids[k].id = m

(***************************************************************************)
(* Geometry: window and getBoundingClientRect                              *)
(***************************************************************************)
\* window.innerHeight, window.innerWidth and the width of the elements
InnerHeight == 3
InnerWidth == 2
ElemWidth == 1


\* element.getBoundingClientRect() of the e-th element with the page scrolled
\* to sy; a mark takes the box of the line that holds it
ElemRect(d, e, sy) ==
    [top |-> d[e].y - sy, left |-> 0, bottom |-> d[e].y - sy + d[e].h,
     right |-> ElemWidth, height |-> d[e].h]

\* the largest scroll offset: the height of the page (the finder itself is
\* position: fixed and adds nothing to it) less that of the window
MaxScrollY(d) ==
    LET bottoms == {d[e].y + d[e].h : e \in {i \in 1..Len(d) : ~d[i].widget}}
        height == CHOOSE b \in bottoms : \A c \in bottoms : c <= b
    IN IF height > InnerHeight THEN height - InnerHeight ELSE 0

\* the rectangle of an element that is not in the document
ZeroRect == [top |-> 0, left |-> 0, bottom |-> 0, right |-> 0, height |-> 0]

MarkRect(d, m, sy) ==
    LET e == ParentOf(d, m) IN IF e = 0 THEN ZeroRect ELSE ElemRect(d, e, sy)

\* a test that takes an element that is partly inside the window too
isPartlyInViewport(rect) ==
    /\ rect.bottom > 0
    /\ rect.right > 0
    /\ rect.top < InnerHeight
    /\ rect.left < InnerWidth

\* isInViewport, App.tsx:11-15, on the rectangle of the element
isInViewport(rect) ==
    /\ rect.top >= 0
    /\ rect.left >= 0
    /\ rect.bottom <= InnerHeight
    /\ rect.right <= InnerWidth

(***************************************************************************)
(* Content scanner: the tree walker and the match loop, App.tsx:75-120     *)
(***************************************************************************)
\* acceptNode, App.tsx:76-96, for the k-th child of the e-th element
AcceptNode(d, e, k, options, sy) ==
    /\ ~IsBlank(d[e].kids[k].text)
    /\ ~d[e].hidden
    /\ ~(options.onlyViewport /\ ~isInViewport(ElemRect(d, e, sy)))

\* a loop body that looks into the text of the finder as well
NodeRangesNoWidgetSkip(d, e, k, atoms, options, sy) ==
    IF \/ ~AcceptNode(d, e, k, options, sy)
       \/ d[e].kids[k].id # 0
    THEN << >>
    ELSE LET ms == MatchAll(atoms, d[e].kids[k].text, IgnoreCase(options))
         IN [i \in 1..Len(ms) |-> [e |-> e, k |-> k, s |-> ms[i][1], t |-> ms[i][2]]]

\* the body of the while loop, App.tsx:103-119: the ranges of one text node.
\* A range is [e, k, s, t]: offsets s to t of the k-th child of element e.
\* The text of a mark has that mark as parent element and is skipped.
NodeRanges(d, e, k, atoms, options, sy) ==
    IF \/ ~AcceptNode(d, e, k, options, sy)
       \/ d[e].kids[k].id # 0
       \/ d[e].widget
    THEN << >>
    ELSE LET ms == MatchAll(atoms, d[e].kids[k].text, IgnoreCase(options))
         IN [i \in 1..Len(ms) |-> [e |-> e, k |-> k, s |-> ms[i][1], t |-> ms[i][2]]]

\* walker.nextNode() until it ends: the text nodes in pre-order, from the
\* k-th child of element e on
RECURSIVE ScanFrom(_, _, _, _, _, _)
ScanFrom(d, e, k, atoms, options, sy) ==
    IF e > Len(d) THEN << >>
    ELSE IF k > Len(d[e].kids) THEN ScanFrom(d, e + 1, 1, atoms, options, sy)
    ELSE NodeRanges(d, e, k, atoms, options, sy)
         \o ScanFrom(d, e, k + 1, atoms, options, sy)

matchedRanges(d, atoms, options, sy) == ScanFrom(d, 1, 1, atoms, options, sy)

(***************************************************************************)
(* Highlight manager: materialize, App.tsx:122-137, and clear, 147-158     *)
(***************************************************************************)
\* the characters of t from offset s up to offset e
SubText(t, s, e) == SubSeq(t, s + 1, e)

\* range.surroundContents(mark) for a range inside one text node: the node
\* keeps the text before the range, the mark takes the text of the range and
\* a new text node the text after it.  ok = FALSE is the exception of a range
\* whose node or offsets are no longer in the document.
surroundContents(d, r, m) ==
    IF \/ r.e > Len(d)
       \/ r.k > Len(d[r.e].kids)
    THEN [ok |-> FALSE, doc |-> d]
    ELSE LET kids == d[r.e].kids
             node == kids[r.k]
         IN IF node.id # 0 \/ r.t > Len(node.text) \/ r.s > r.t
            THEN [ok |-> FALSE, doc |-> d]
            ELSE LET new == SubSeq(kids, 1, r.k - 1)
                            \o << TextNode(SubText(node.text, 0, r.s)),
                                  MarkNode(m, SubText(node.text, r.s, r.t)),
                                  TextNode(SubText(node.text, r.t, Len(node.text))) >>
                            \o SubSeq(kids, r.k + 1, Len(kids))
                 IN [ok |-> TRUE, doc |-> [d EXCEPT ![r.e].kids = new]]

\* newMarks.push(mark) in place of unshift
Push(newMarks, m) == Append(newMarks, m)

\* newMarks.unshift(mark), App.tsx:130
Unshift(newMarks, m) == <<m>> \o newMarks

\* document.createElement('mark'): the identity of a new element is one no
\* reference held by the program uses; NthFree is the i-th smallest of them
RECURSIVE NthFree(_, _, _)
NthFree(used, i, from) ==
    IF from \in used THEN NthFree(used, i, from + 1)
    ELSE IF i <= 1 THEN from
    ELSE NthFree(used, i - 1, from + 1)

\* a loop that a range that cannot be wrapped ends
RECURSIVE MaterializeAbortsBatch(_, _, _, _, _)
MaterializeAbortsBatch(d, ranges, used, i, newMarks) ==
    IF i < 1 THEN [doc |-> d, marks |-> newMarks]
    ELSE LET mark == NthFree(used, i, 1)
             res == surroundContents(d, ranges[i], mark)
         IN IF res.ok
            THEN MaterializeAbortsBatch(res.doc, ranges, used, i - 1, Unshift(newMarks, mark))
            ELSE [doc |-> d, marks |-> newMarks]

\* the loop of App.tsx:123-135 from index i down: the i-th range is wrapped
\* in a new mark; a range that cannot be wrapped is skipped
RECURSIVE Materialize(_, _, _, _, _)
Materialize(d, ranges, used, i, newMarks) ==
    IF i < 1 THEN [doc |-> d, marks |-> newMarks]
    ELSE LET mark == NthFree(used, i, 1)
             res == surroundContents(d, ranges[i], mark)
         IN IF res.ok
            THEN Materialize(res.doc, ranges, used, i - 1, Unshift(newMarks, mark))
            ELSE Materialize(d, ranges, used, i - 1, newMarks)

\* highlightText, App.tsx:50-141; used are the identities of the elements
\* the program still refers to.  The syntax error of new RegExp is caught by
\* the outer catch, which returns no marks.
highlightText(text, options, d, sy, used) ==
    IF IsBlank(text) THEN [doc |-> d, marks |-> << >>]
    ELSE LET regex == CompileRule(text, options)
         IN IF ~regex.ok THEN [doc |-> d, marks |-> << >>]
            ELSE LET ranges == matchedRanges(d, regex.atoms, options, sy)
                 IN Materialize(d, ranges, used, Len(ranges), << >>)

\* What throws during a scan: node, the text nodes <<e, k>> whose examination
\* (acceptNode or the body of the loop) throws; wrap, the indices, in
\* matchedRanges, of the ranges whose surroundContents throws.
NoFaults == [node |-> {}, wrap |-> {}]

\* the walker comes to a text node whose examination throws
Throws(d, f) ==
    \E n \in f.node : n[1] \in 1..Len(d) /\ n[2] \in 1..Len(d[n[1]].kids)

\* the ranges with those that throw replaced by a range that
\* surroundContents cannot wrap (its node is not in the document)
WithWrapFaults(d, ranges, f) ==
    [i \in 1..Len(ranges) |->
        IF i \in f.wrap THEN [ranges[i] EXCEPT !.e = Len(d) + 1] ELSE ranges[i]]

\* highlightText, App.tsx:50-141, in an environment where f throws: the
\* walker and the loop have no try of their own, so what a text node throws
\* reaches the outer catch, which returns no marks (nothing has been wrapped
\* by then); what surroundContents throws is caught in the loop of
\* App.tsx:123-135
highlightTextThrowing(text, options, d, sy, used, f) ==
    IF IsBlank(text) THEN [doc |-> d, marks |-> << >>]
    ELSE LET regex == CompileRule(text, options)
         IN IF ~regex.ok \/ Throws(d, f) THEN [doc |-> d, marks |-> << >>]
            ELSE LET ranges == matchedRanges(d, regex.atoms, options, sy)
                 IN Materialize(d, WithWrapFaults(d, ranges, f), used, Len(ranges), << >>)

\* parent.normalize(): empty text nodes go, adjacent text nodes are merged
RECURSIVE Normalize(_)
Normalize(kids) ==
    IF kids = << >> THEN << >>
    ELSE LET h == Head(kids)
         IN IF h.id = 0 /\ h.text = << >> THEN Normalize(Tail(kids))
            ELSE IF h.id = 0 /\ Len(kids) > 1 /\ kids[2].id = 0
            THEN Normalize(<<TextNode(h.text \o kids[2].text)>> \o Tail(Tail(kids)))
            ELSE <<h>> \o Normalize(Tail(kids))

\* a clear that reads mark.nodeValue (null for an element) in place of
\* mark.textContent
ClearMarkNodeValue(d, m) ==
    LET parent == ParentOf(d, m)
    IN IF parent = 0 THEN d
       ELSE LET kids == d[parent].kids
                k == KidIndex(kids, m)
                replaced == [kids EXCEPT ![k] = TextNode(<< >>)]
            IN [d EXCEPT ![parent].kids = Normalize(replaced)]

\* a clear that inserts the text node before the mark and leaves the mark in
\* place
ClearMarkInsertBefore(d, m) ==
    LET parent == ParentOf(d, m)
    IN IF parent = 0 THEN d
       ELSE LET kids == d[parent].kids
                k == KidIndex(kids, m)
                inserted == SubSeq(kids, 1, k - 1) \o <<TextNode(kids[k].text)>>
                            \o SubSeq(kids, k, Len(kids))
            IN [d EXCEPT ![parent].kids = Normalize(inserted)]

\* the body of the forEach of clearHighlights, App.tsx:149-156
ClearMark(d, m) ==
    LET parent == ParentOf(d, m)
    IN IF parent = 0 THEN d
       ELSE LET kids == d[parent].kids
                k == KidIndex(kids, m)
                replaced == [kids EXCEPT ![k] = TextNode(kids[k].text)]
            IN [d EXCEPT ![parent].kids = Normalize(replaced)]

\* clearHighlights, App.tsx:147-158
RECURSIVE clearHighlights(_, _)
clearHighlights(d, marks) ==
    IF marks = << >> THEN d
    ELSE clearHighlights(ClearMark(d, Head(marks)), Tail(marks))

(***************************************************************************)
(* Navigation: getClosestMarkIndex and focusIncomingMark                   *)
(***************************************************************************)
Abs(x) == IF x < 0 THEN -x ELSE x

\* twice Math.abs(rect.top + rect.height / 2 - window.innerHeight / 2)
DistanceFromCenter2(rect) == Abs(2 * rect.top + rect.height - InnerHeight)

\* marks[i] of JavaScript (i counts from 0): 0 stands for undefined
At(ms, i) == IF i >= 0 /\ i < Len(ms) THEN ms[i + 1] ELSE 0

\* a default selection without the fallback to the first mark
getClosestMarkIndexNoFallback(ms, d, sy) ==
    LET rect == [i \in 1..Len(ms) |-> MarkRect(d, ms[i], sy)]
        inView == {i \in 1..Len(ms) : isInViewport(rect[i])}
        dist == [i \in inView |-> DistanceFromCenter2(rect[i])]
        best == {i \in inView : \A j \in inView : dist[i] < dist[j] \/ (dist[i] = dist[j] /\ i <= j)}
    IN IF best = {} THEN -1 ELSE (CHOOSE i \in best : TRUE) - 1

\* getClosestMarkIndex, App.tsx:22-42.  The sort is stable, so
\* sortedViewportMarks[0] is the first of the marks in the viewport that no
\* other one is closer than; findIndex finds nothing when there is none.
getClosestMarkIndex(ms, d, sy) ==
    LET rect == [i \in 1..Len(ms) |-> MarkRect(d, ms[i], sy)]
        inView == {i \in 1..Len(ms) : isInViewport(rect[i])}
        dist == [i \in inView |-> DistanceFromCenter2(rect[i])]
        best == {i \in inView : \A j \in inView : dist[i] < dist[j] \/ (dist[i] = dist[j] /\ i <= j)}
        viewportMarkIndex == IF best = {} THEN -1 ELSE (CHOOSE i \in best : TRUE) - 1
    IN IF viewportMarkIndex > -1 THEN viewportMarkIndex ELSE 0

\* mark.style.backgroundColor = colour, for a mark attached to the document
\* (the style of a detached element shows nowhere)
SetBackground(d, m, colour) ==
    LET parent == ParentOf(d, m)
    IN IF parent = 0 THEN d
       ELSE [d EXCEPT ![parent].kids[KidIndex(d[parent].kids, m)].bg = colour]

Clamp(x, lo, hi) == IF x < lo THEN lo ELSE IF x > hi THEN hi ELSE x

\* incomingMark.scrollIntoView({block: 'center'}): the scroll offset that
\* centres the mark, as far as the page can scroll; a detached element does
\* not scroll the page
scrollIntoView(d, m, sy) ==
    LET parent == ParentOf(d, m)
    IN IF parent = 0 THEN sy
       ELSE Clamp((2 * d[parent].y + d[parent].h - InnerHeight) \div 2, 0, MaxScrollY(d))

\* focusIncomingMark, App.tsx:165-174: the document and the scroll offset
\* after it
focusIncomingMark(d, sy, incomingMark, currentMark) ==
    IF incomingMark = 0 THEN [doc |-> d, scrollY |-> sy]
    ELSE LET d1 == IF currentMark # 0 THEN SetBackground(d, currentMark, "#ffff00") ELSE d
         IN [doc |-> SetBackground(d1, incomingMark, "#fc9636"),
             scrollY |-> scrollIntoView(d1, incomingMark, sy)]

\* the active index, the document and the scroll offset that a navigation
\* handler leaves
Navigated(index, d, sy) == [activeMarkIndex |-> index, doc |-> d, scrollY |-> sy]

\* handlePreviousMark, App.tsx:206-216, for the mark list ms and the active
\* index currentIndex
handlePreviousMark(ms, currentIndex, d, sy) ==
    IF Len(ms) = 0 THEN Navigated(currentIndex, d, sy)
    ELSE LET incomingIndex == IF currentIndex = 0 THEN Len(ms) - 1 ELSE currentIndex - 1
             f == focusIncomingMark(d, sy, At(ms, incomingIndex), At(ms, currentIndex))
         IN Navigated(incomingIndex, f.doc, f.scrollY)

\* a handler that goes on without marks
handleNextMarkNoEarlyReturn(ms, currentIndex, d, sy) ==
    LET incomingIndex == IF currentIndex = Len(ms) - 1 THEN 0 ELSE currentIndex + 1
        f == focusIncomingMark(d, sy, At(ms, incomingIndex), At(ms, currentIndex))
    IN Navigated(incomingIndex, f.doc, f.scrollY)

\* a handler that does not wrap round after the last mark
handleNextMarkNoWrap(ms, currentIndex, d, sy) ==
    IF Len(ms) = 0 THEN Navigated(currentIndex, d, sy)
    ELSE LET incomingIndex == IF currentIndex = Len(ms) - 1 THEN currentIndex
                              ELSE currentIndex + 1
             f == focusIncomingMark(d, sy, At(ms, incomingIndex), At(ms, currentIndex))
         IN Navigated(incomingIndex, f.doc, f.scrollY)

\* handleNextMark, App.tsx:218-228, for the mark list ms and the active index
\* currentIndex
handleNextMark(ms, currentIndex, d, sy) ==
    IF Len(ms) = 0 THEN Navigated(currentIndex, d, sy)
    ELSE LET incomingIndex == IF currentIndex = Len(ms) - 1 THEN 0 ELSE currentIndex + 1
             f == focusIncomingMark(d, sy, At(ms, incomingIndex), At(ms, currentIndex))
         IN Navigated(incomingIndex, f.doc, f.scrollY)

(***************************************************************************)
(* The state of App, App.tsx:183-196, and of its environment               *)
(***************************************************************************)
VARIABLES
    page,             \* the document as it was loaded (it never changes)
    doc,              \* the document under document.body
    scrollY,          \* the scroll offset of the window
    isVisible,        \* useState(false)
    searchText,       \* useState('')
    options,          \* useStorage(searchOptionsStorage)
    input,            \* useStorage(searchInputStorage)
    marks,            \* useState([]): the current mark list
    activeMarkIndex,  \* useState(-1)
    timers,           \* the pending setTimeout(..., 0) callbacks, oldest
                      \* first: those of handleSearchTextChange hold the
                      \* value to store, those of the rescan effect the
                      \* newMarks of their scan
    last,             \* "close" from a close command until the next open or
                      \* query change, "other" otherwise; in HighlightSpec
                      \* the step that was taken last
    cached,           \* history, kept by ReopenSpec only: the active index
                      \* and the query text that the last close found
    faults            \* what throws during a scan, in FaultSpec only: the
                      \* text nodes whose examination throws and the matched
                      \* ranges whose surroundContents throws

vars == <<page, doc, scrollY, isVisible, searchText, options, input, marks,
          activeMarkIndex, timers, last, cached, faults>>

\* the texts the user types in this model
Queries ==
    { EmptyText, <<" ">>, <<"a">>, <<"(">> }

OptionKeys == {"preserveCase", "wholeWord", "useRegex", "onlyViewport"}

\* the flags the user toggles in the specification Spec; preserveCase and
\* wholeWord only change which occurrences match, and the specification
\* HighlightSpec below covers every value of them
ToggledKeys == {"useRegex", "onlyViewport"}

\* the defaults of searchOptionsStorage.ts:17-22
DefaultOptions ==
    [preserveCase |-> FALSE, wholeWord |-> FALSE, useRegex |-> FALSE,
     onlyViewport |-> FALSE]

\* the page of this model: four lines of text, the third of them hidden, and
\* the text of the finder's own buttons (position: fixed)
Page ==
    << Element(<<TextNode(<<"a", "b", " ", "a">>)>>, FALSE, FALSE, 0),
       Element(<<TextNode(<<"A">>)>>, FALSE, FALSE, 1),
       Element(<<TextNode(<<"a">>)>>, TRUE, FALSE, 2),
       Element(<<TextNode(<<"(">>)>>, FALSE, FALSE, 3),
       Element(<<TextNode(<<"A", "a">>)>>, FALSE, TRUE, 0) >>

\* history of close and open: what the last close found, and whether the
\* finder has been opened since.  "off" records nothing, "none" is the
\* history before the first close.
Cached(state, index, text) == [state |-> state, activeIndex |-> index, queryText |-> text]
NotCached(state) == Cached(state, -1, EmptyText)

\* the callback of App.tsx:201-203 and that of App.tsx:301-303
StoreTimer(value) == [kind |-> "store", value |-> value, newMarks |-> << >>]
SelectTimer(newMarks) == [kind |-> "select", value |-> << >>, newMarks |-> newMarks]

IsSelectTimer(t) == t.kind = "select"

\* the newMarks of the deferred handleClosestMark calls, oldest first
Pending(tm) ==
    LET sel == SelectSeq(tm, IsSelectTimer) IN [i \in 1..Len(sel) |-> sel[i].newMarks]

\* the identities the deferred callbacks still hold
HeldIds(tm) == UNION {Range(tm[i].newMarks) : i \in 1..Len(tm)}

\* Element identities are only ever compared with one another, so a state is
\* kept with its identities renamed to 1, 2, ... in the order in which the
\* deferred callbacks, the document and the mark list mention them.
RenameKids(kids, ren) ==
    [k \in 1..Len(kids) |->
        IF kids[k].id = 0 THEN kids[k] ELSE [kids[k] EXCEPT !.id = ren[@]]]

Canonical(d, ms, tm) ==
    LET mentioned == Concat(Pending(tm)) \o DocMarkIds(d) \o ms
        first(m) == CHOOSE i \in 1..Len(mentioned) :
                        /\ mentioned[i] = m
                        /\ \A j \in 1..(i - 1) : mentioned[j] # m
        ren == [m \in Range(mentioned) |->
                   Cardinality({mentioned[j] : j \in 1..first(m)})]
    IN [doc |-> [e \in 1..Len(d) |-> [d[e] EXCEPT !.kids = RenameKids(@, ren)]],
        marks |-> [i \in 1..Len(ms) |-> ren[ms[i]]],
        timers |-> [i \in 1..Len(tm) |->
                       [tm[i] EXCEPT !.newMarks = [j \in 1..Len(@) |-> ren[@[j]]]]]]

\* an effect that scans without clearing the marks of the scan before
RescanEffectNoClear(text, opts, d, prevMarks, tm) ==
    LET used == Range(DocMarkIds(d)) \cup HeldIds(tm)
        res == highlightText(text, opts, d, scrollY, used)
    IN Canonical(res.doc, res.marks, Append(tm, SelectTimer(res.marks)))

\* an effect that scans first and clears the marks of the scan before
\* afterwards
RescanEffectHighlightFirst(text, opts, d, prevMarks, tm) ==
    LET used == Range(DocMarkIds(d)) \cup HeldIds(tm)
        res == highlightText(text, opts, d, scrollY, used)
        cleared == clearHighlights(res.doc, prevMarks)
    IN Canonical(cleared, res.marks, Append(tm, SelectTimer(res.marks)))

\* the effect of App.tsx:291-304 for the query text and the option snapshot
\* opts: the updater clears prevMarks and scans, and the default selection of
\* the new marks is deferred
RescanEffect(text, opts, d, prevMarks, tm) ==
    LET cleared == clearHighlights(d, prevMarks)
        used == Range(DocMarkIds(cleared)) \cup HeldIds(tm)
        res == highlightText(text, opts, cleared, scrollY, used)
    IN Canonical(res.doc, res.marks, Append(tm, SelectTimer(res.marks)))

\* the state after mounting: the effect has run once with the empty query
Mounted ==
    /\ page = Page
    /\ doc = Page
    /\ scrollY = 0
    /\ isVisible = FALSE
    /\ searchText = EmptyText
    /\ options = DefaultOptions
    /\ input = EmptyText
    /\ marks = << >>
    /\ activeMarkIndex = -1
    /\ timers = << SelectTimer(<< >>) >>
    /\ last = "other"
    /\ faults = NoFaults

Init == Mounted /\ cached = NotCached("off")

\* a handler whose rescan waits for the write of the query: it queues the
\* write and leaves the marks as they are
HandleSearchTextChangeAwaitsStore(value) ==
    /\ value # searchText
    /\ Len(timers) + 2 <= MaxTimers
    /\ searchText' = value
    /\ timers' = Append(Append(timers, StoreTimer(value)), SelectTimer(marks))
    /\ last' = "other"
    /\ UNCHANGED <<faults, cached, page, doc, marks, scrollY, isVisible, options, input,
                   activeMarkIndex>>

\* handleSearchTextChange, App.tsx:198-204, with the rescan its setSearchText
\* triggers
HandleSearchTextChange(value) ==
    /\ value # searchText
    /\ Len(timers) + 2 <= MaxTimers
    /\ LET r == RescanEffect(value, options, doc, marks, Append(timers, StoreTimer(value)))
       IN /\ doc' = r.doc
          /\ marks' = r.marks
          /\ timers' = r.timers
    /\ searchText' = value
    /\ last' = "other"
    /\ UNCHANGED <<faults, cached, page, scrollY, isVisible, options, input, activeMarkIndex>>

\* the oldest callback runs and is one of handleSearchTextChange:
\* searchInputStorage.setSearchInput(value), App.tsx:201-203, and the live
\* update of the stored value that follows it
SetSearchInput ==
    /\ timers # << >>
    /\ Head(timers).kind = "store"
    /\ input' = Head(timers).value
    /\ timers' = Tail(timers)
    /\ last' = last
    /\ UNCHANGED <<faults, cached, page, doc, scrollY, isVisible, searchText, options, marks,
                   activeMarkIndex>>

\* an updater that leaves out the spread of currentOptions
toggleOptionNoSpread(currentOptions, option) ==
    [DefaultOptions EXCEPT ![option] = ~currentOptions[option]]

\* the updater of searchOptionsStorage.toggleOption,
\* searchOptionsStorage.ts:33-38
toggleOption(currentOptions, option) ==
    [currentOptions EXCEPT ![option] = ~currentOptions[option]]

\* searchOptionsStorage.toggleOption, searchOptionsStorage.ts:32-39, with the
\* live update of options and the rescan it triggers
ToggleOption(k) ==
    /\ Len(timers) < MaxTimers
    /\ options' = toggleOption(options, k)
    /\ LET r == RescanEffect(searchText, options', doc, marks, timers)
       IN /\ doc' = r.doc
          /\ marks' = r.marks
          /\ timers' = r.timers
    /\ last' = last
    /\ UNCHANGED <<faults, cached, page, scrollY, isVisible, searchText, input, activeMarkIndex>>

\* handlePreviousMark, App.tsx:206-216
HandlePreviousMark ==
    /\ Len(marks) # 0
    /\ activeMarkIndex > -MaxIndex
    /\ LET n == handlePreviousMark(marks, activeMarkIndex, doc, scrollY)
       IN /\ activeMarkIndex' = n.activeMarkIndex
          /\ doc' = n.doc
          /\ scrollY' = n.scrollY
    /\ last' = last
    /\ UNCHANGED <<faults, cached, page, isVisible, searchText, options, input, marks, timers>>

\* handleNextMark, App.tsx:218-228
HandleNextMark ==
    /\ Len(marks) # 0
    /\ activeMarkIndex < MaxIndex
    /\ LET n == handleNextMark(marks, activeMarkIndex, doc, scrollY)
       IN /\ activeMarkIndex' = n.activeMarkIndex
          /\ doc' = n.doc
          /\ scrollY' = n.scrollY
    /\ last' = last
    /\ UNCHANGED <<faults, cached, page, isVisible, searchText, options, input, marks, timers>>

\* a next or previous command while there are no marks: the early return of
\* App.tsx:207 and 219
HandleNavigationNoMarks ==
    /\ Len(marks) = 0
    /\ UNCHANGED vars

\* the oldest callback runs and is one of the rescan effect:
\* handleClosestMark, App.tsx:230-246, with the newMarks of its scan
HandleClosestMark ==
    /\ timers # << >>
    /\ Head(timers).kind = "select"
    /\ LET newMarks == Head(timers).newMarks
           closestMarkIndex == getClosestMarkIndex(newMarks, doc, scrollY)
           f == IF Len(newMarks) = 0 THEN [doc |-> doc, scrollY |-> scrollY]
                ELSE focusIncomingMark(doc, scrollY, At(newMarks, closestMarkIndex), 0)
           c == Canonical(f.doc, marks, Tail(timers))
       IN /\ activeMarkIndex' = IF Len(newMarks) = 0 THEN -1 ELSE closestMarkIndex
          /\ doc' = c.doc
          /\ marks' = c.marks
          /\ timers' = c.timers
          /\ scrollY' = f.scrollY
    /\ last' = last
    /\ UNCHANGED <<faults, cached, page, isVisible, searchText, options, input>>

\* openFinder, App.tsx:260-266, with the rescan its setSearchText triggers
\* when the stored query differs from the current one (its own callback
\* selects the text of the input box and changes nothing else)
OpenFinder ==
    /\ isVisible' = TRUE
    /\ searchText' = input
    /\ IF input # searchText
       THEN /\ Len(timers) < MaxTimers
            /\ LET r == RescanEffect(input, options, doc, marks, timers)
               IN /\ doc' = r.doc
                  /\ marks' = r.marks
                  /\ timers' = r.timers
       ELSE UNCHANGED <<doc, marks, timers>>
    /\ last' = "other"
    /\ cached' = IF cached.state = "held" THEN [cached EXCEPT !.state = "reopened"]
                 ELSE cached
    /\ UNCHANGED <<faults, page, scrollY, options, input, activeMarkIndex>>

\* closeFinder, App.tsx:268-274, with the rescan its setSearchText('')
\* triggers when the query was not empty: the updater of that rescan sees the
\* mark list that closeFinder has emptied
CloseFinder ==
    /\ LET cleared == clearHighlights(doc, marks)
       IN IF searchText # EmptyText
          THEN /\ Len(timers) < MaxTimers
               /\ LET r == RescanEffect(EmptyText, options, cleared, << >>, timers)
                  IN /\ doc' = r.doc
                     /\ marks' = r.marks
                     /\ timers' = r.timers
          ELSE LET c == Canonical(cleared, << >>, timers)
               IN /\ doc' = c.doc
                  /\ marks' = c.marks
                  /\ timers' = c.timers
    /\ activeMarkIndex' = -1
    /\ searchText' = EmptyText
    /\ isVisible' = FALSE
    /\ last' = "close"
    /\ cached' = IF cached.state = "off" THEN cached
                 ELSE Cached("held", activeMarkIndex, searchText)
    /\ UNCHANGED <<faults, page, scrollY, options, input>>

\* the user scrolls the page
Scroll(y) ==
    /\ y # scrollY
    /\ scrollY' = y
    /\ last' = last
    /\ UNCHANGED <<faults, cached, page, doc, isVisible, searchText, options, input, marks,
                   activeMarkIndex, timers>>

Next ==
    \/ \E value \in Queries : HandleSearchTextChange(value)
    \/ SetSearchInput
    \/ \E k \in ToggledKeys : ToggleOption(k)
    \/ HandlePreviousMark
    \/ HandleNextMark
    \/ HandleNavigationNoMarks
    \/ HandleClosestMark
    \/ OpenFinder
    \/ CloseFinder
    \/ \E y \in 0..MaxScrollY(doc) : Scroll(y)

Spec == Init /\ [][Next]_vars

TypeOK ==
    /\ scrollY \in 0..MaxScrollY(doc)
    /\ isVisible \in BOOLEAN
    /\ searchText \in Queries
    /\ input \in Queries
    /\ Len(timers) <= MaxTimers
    /\ activeMarkIndex \in Int

(***************************************************************************)
(* Close and open again: the finder with the history of what the last      *)
(* close found.  The user types, moves through the marks, closes and opens.*)
(***************************************************************************)
ReopenQueries == { <<"a">>, <<"(">> }

ReopenInit == Mounted /\ cached = NotCached("none")

ReopenNext ==
    \/ \E value \in ReopenQueries : HandleSearchTextChange(value)
    \/ SetSearchInput
    \/ HandlePreviousMark
    \/ HandleNextMark
    \/ HandleClosestMark
    \/ OpenFinder
    \/ CloseFinder

ReopenSpec == ReopenInit /\ [][ReopenNext]_vars

(***************************************************************************)
(* The four option flags: the user types a query, toggles any of the       *)
(* flags, moves to the next mark and scrolls.                              *)
(***************************************************************************)
OptionsQueries == { <<"a">>, <<"(">> }

OptionsNext ==
    \/ \E value \in OptionsQueries : HandleSearchTextChange(value)
    \/ SetSearchInput
    \/ \E k \in OptionKeys : ToggleOption(k)
    \/ HandleNextMark
    \/ HandleClosestMark
    \/ \E y \in 0..MaxScrollY(doc) : Scroll(y)

OptionsSpec == Init /\ [][OptionsNext]_vars

(***************************************************************************)
(* The highlight manager on its own: one scan of a document under a query  *)
(* and an option snapshot, then clearHighlights, then clearHighlights      *)
(* again on the same list.  last is the step that was taken last.          *)
(***************************************************************************)
\* three elements, the first and the last two lines high: scrolled to the
\* top the last one reaches below the window, scrolled by one line the first
\* one reaches above it too, scrolled by two the first one is out of sight
WindowPage ==
    << TallElement(<<TextNode(<<"a">>)>>, 0, 2),
       Element(<<TextNode(<<"a", "b">>)>>, FALSE, FALSE, 2),
       TallElement(<<TextNode(<<"A">>)>>, 3, 2) >>

\* "Cat cats category" and "Cat cats cat"
CatPage ==
    << Element(<<TextNode(<<"C", "a", "t", " ", "c", "a", "t", "s", " ",
                            "c", "a", "t", "e", "g", "o", "r", "y">>)>>,
               FALSE, FALSE, 0),
       Element(<<TextNode(<<"C", "a", "t", " ", "c", "a", "t", "s", " ", "c", "a", "t">>)>>,
               FALSE, FALSE, 1) >>

\* a line of text, an element with display: none and an element inside one
\* with display: none
HiddenPage ==
    << Element(<<TextNode(<<"a", "b">>)>>, FALSE, FALSE, 0),
       Element(<<TextNode(<<"a">>)>>, TRUE, FALSE, 1),
       ElementInHidden(<<TextNode(<<"b", "a">>)>>) >>

\* the documents: matches next to one another and at both ends of a node,
\* several text nodes and an empty one in an element, a hidden element, the
\* finder's own text, an element below the window, metacharacters, elements
\* that the edge of the window cuts
Pages ==
    { Page,
      << Element(<<TextNode(<<"a", "a", "b", "A">>)>>, FALSE, FALSE, 0),
         Element(<<TextNode(<<"a", " ">>), TextNode(<< >>), TextNode(<<"a", "b">>)>>,
                 FALSE, FALSE, 3),
         Element(<<TextNode(<<"a">>)>>, FALSE, TRUE, 0) >>,
      << Element(<<TextNode(<<" ">>), TextNode(<<"b", "a", ".", "a">>)>>, FALSE, FALSE, 1),
         Element(<<TextNode(<<"a", "b">>)>>, TRUE, FALSE, 2),
         Element(<<TextNode(<<"A", "b", " ", "a", "b">>)>>, FALSE, FALSE, 2) >>,
      << Element(<<TextNode(<<".", "a", ".", "b", "(", "(">>)>>, FALSE, FALSE, 0) >>,
      WindowPage,
      HiddenPage }

\* the queries: plain, with a metacharacter, blank, not a valid pattern
ScanQueries ==
    { <<"a">>, <<"A">>, <<"a", "b">>, <<".">>, <<"a", ".">>, <<"b", " ">>,
      <<" ">>, <<"(">>, <<"a", "(">> }

\* the queries for the page of words: a word in both cases, the start of a
\* word, a word and the space after it
WordQueries ==
    { <<"c", "a", "t">>, <<"C", "a", "t">>, <<"c", "a">>, <<"c", "a", "t", " ">> }

\* the scans: a document and the query it is searched for
Scans == (Pages \X ScanQueries) \cup ({CatPage} \X WordQueries)

AllOptions == [OptionKeys -> BOOLEAN]

HighlightInit ==
    /\ \E scan \in Scans : page = scan[1] /\ searchText = scan[2]
    /\ doc = page
    /\ scrollY \in 0..MaxScrollY(page)
    /\ isVisible = TRUE
    /\ options \in AllOptions
    /\ input = EmptyText
    /\ marks = << >>
    /\ activeMarkIndex = -1
    /\ timers = << >>
    /\ last = "loaded"
    /\ cached = NotCached("off")
    /\ faults = NoFaults

\* highlightText(searchText, options) on the document as loaded
ScanStep ==
    /\ last = "loaded"
    /\ LET res == highlightText(searchText, options, doc, scrollY, {})
       IN /\ doc' = res.doc
          /\ marks' = res.marks
    /\ last' = "scanned"
    /\ UNCHANGED <<faults, cached, page, scrollY, isVisible, searchText, options, input,
                   activeMarkIndex, timers>>

\* clearHighlights(marks) on the marks of the scan
ClearStep ==
    /\ last = "scanned"
    /\ doc' = clearHighlights(doc, marks)
    /\ last' = "cleared"
    /\ UNCHANGED <<faults, cached, page, scrollY, isVisible, searchText, options, input, marks,
                   activeMarkIndex, timers>>

\* clearHighlights(marks) once more, on the same list
ClearAgainStep ==
    /\ last = "cleared"
    /\ doc' = clearHighlights(doc, marks)
    /\ last' = "cleared twice"
    /\ UNCHANGED <<faults, cached, page, scrollY, isVisible, searchText, options, input, marks,
                   activeMarkIndex, timers>>

HighlightNext == ScanStep \/ ClearStep \/ ClearAgainStep

HighlightSpec == HighlightInit /\ [][HighlightNext]_vars

(***************************************************************************)
(* Scans one after another on a document that nothing else changes: a scan *)
(* of the document as loaded, then rescans for other queries and under     *)
(* other flags.  last is "rescanned" after a rescan.                       *)
(***************************************************************************)
\* the effect of App.tsx:291-304 for a new query or a new option snapshot,
\* without the deferred selection
RescanStep(text, opts) ==
    /\ last \in {"scanned", "rescanned"}
    /\ text # searchText \/ opts # options
    /\ LET r == RescanEffect(text, opts, doc, marks, << >>)
       IN /\ doc' = r.doc
          /\ marks' = r.marks
    /\ searchText' = text
    /\ options' = opts
    /\ last' = "rescanned"
    /\ UNCHANGED <<faults, cached, page, scrollY, isVisible, input, activeMarkIndex,
                   timers>>

RescanInit ==
    /\ HighlightInit
    /\ page \in Pages
    /\ ~options.wholeWord

RescanNext ==
    \/ ScanStep
    \/ \E value \in ScanQueries : RescanStep(value, options)
    \/ \E k \in OptionKeys \ {"wholeWord"} : RescanStep(searchText, toggleOption(options, k))

RescanSpec == RescanInit /\ [][RescanNext]_vars

(***************************************************************************)
(* Navigation with its history: the user types a query and presses Enter   *)
(* and Shift+Enter, with and without marks, before and after the deferred  *)
(* callbacks.  last is the command that was given last.                    *)
(***************************************************************************)
NavQueries == { EmptyText, <<"a">>, <<"(">> }

\* Enter in the input box: handleNextMark, App.tsx:218-228
NextCommand ==
    /\ activeMarkIndex \in (-MaxIndex)..MaxIndex
    /\ LET n == handleNextMark(marks, activeMarkIndex, doc, scrollY)
       IN /\ activeMarkIndex' = n.activeMarkIndex
          /\ doc' = n.doc
          /\ scrollY' = n.scrollY
    /\ last' = "next"
    /\ UNCHANGED <<faults, cached, page, isVisible, searchText, options, input, marks,
                   timers>>

\* Shift+Enter in the input box: handlePreviousMark, App.tsx:206-216
PreviousCommand ==
    /\ activeMarkIndex \in (-MaxIndex)..MaxIndex
    /\ LET n == handlePreviousMark(marks, activeMarkIndex, doc, scrollY)
       IN /\ activeMarkIndex' = n.activeMarkIndex
          /\ doc' = n.doc
          /\ scrollY' = n.scrollY
    /\ last' = "previous"
    /\ UNCHANGED <<faults, cached, page, isVisible, searchText, options, input, marks,
                   timers>>

NavNext ==
    \/ \E value \in NavQueries : HandleSearchTextChange(value)
    \/ SetSearchInput
    \/ HandleClosestMark
    \/ NextCommand
    \/ PreviousCommand

NavSpec == Init /\ [][NavNext]_vars

(***************************************************************************)
(* A scan in an environment that throws: the examination of one text node  *)
(* or the wrapping of some of the matched ranges fails.  One scan of a      *)
(* document, then clearHighlights.                                         *)
(***************************************************************************)
FaultQueries == { <<"a">>, <<"a", "b">>, <<".">> }

FaultOptions == { o \in AllOptions : ~o.wholeWord /\ ~o.onlyViewport }

\* the ranges a scan of the loaded page matches
PageRanges ==
    LET regex == CompileRule(searchText, options)
    IN IF IsBlank(searchText) \/ ~regex.ok THEN << >>
       ELSE matchedRanges(page, regex.atoms, options, scrollY)

\* the text nodes of the page that the scan looks into
ScannedNodes ==
    {n \in UNION {{<<e, k>> : k \in 1..Len(page[e].kids)} : e \in 1..Len(page)} :
        AcceptNode(page, n[1], n[2], options, scrollY) /\ ~page[n[1]].widget}

FaultInit ==
    /\ page \in Pages
    /\ searchText \in FaultQueries
    /\ doc = page
    /\ scrollY = 0
    /\ isVisible = TRUE
    /\ options \in FaultOptions
    /\ input = EmptyText
    /\ marks = << >>
    /\ activeMarkIndex = -1
    /\ timers = << >>
    /\ last = "loaded"
    /\ cached = NotCached("off")
    /\ \E node \in {{}} \cup {{n} : n \in ScannedNodes} :
       \E wrap \in SUBSET (1..Len(PageRanges)) :
          /\ node = {} \/ wrap = {}
          /\ faults = [node |-> node, wrap |-> wrap]

\* highlightText(searchText, options) on the document as loaded, with the
\* faults of this run
FaultyScanStep ==
    /\ last = "loaded"
    /\ LET res == highlightTextThrowing(searchText, options, doc, scrollY, {}, faults)
       IN /\ doc' = res.doc
          /\ marks' = res.marks
    /\ last' = "scanned"
    /\ UNCHANGED <<faults, cached, page, scrollY, isVisible, searchText, options, input,
                   activeMarkIndex, timers>>

FaultNext == FaultyScanStep \/ ClearStep

FaultSpec == FaultInit /\ [][FaultNext]_vars

(***************************************************************************)
(* Properties                                                              *)
(***************************************************************************)
\* the marks of the current mark list that carry the emphasis colour
ActiveStyled ==
    {i \in 1..Len(marks) :
        \E e \in 1..Len(doc) : \E k \in 1..Len(doc[e].kids) :
            doc[e].kids[k].id = marks[i] /\ doc[e].kids[k].bg = "#fc9636"}

\* the text content of the mark m attached to d
MarkText(d, m) == LET e == ParentOf(d, m) IN d[e].kids[KidIndex(d[e].kids, m)].text

\* C1: in every reachable state the active index lies in -1..markCount-1, so
\* the pagination label never shows a position above the total
C1_ActiveIndexInRange == activeMarkIndex \in -1..(Len(marks) - 1)

\* C2: with marks present, a next command takes the active index i to
\* (i+1) mod count, whatever index it finds
C2_NextAdvancesModCount ==
    [][HandleNextMark => activeMarkIndex' = (activeMarkIndex + 1) % Len(marks)]_vars

\* C3: with marks present, a previous command takes the active index i to
\* (i-1+count) mod count, whatever index it finds, -1 included
C3_PreviousRetreatsModCount ==
    [][HandlePreviousMark =>
           activeMarkIndex' = (activeMarkIndex - 1 + Len(marks)) % Len(marks)]_vars

\* C4: in every reachable state at most one mark of the current mark list
\* carries the emphasis styling
C4_AtMostOneActiveStyled == Cardinality(ActiveStyled) <= 1

\* C5: while the query is empty or only white space the mark list is empty
\* and no mark is left in the document, and once the deferred selection of
\* the rescan has run the active index is -1
C5_BlankQueryNoMarks ==
    Range(searchText) \subseteq {" "} =>
        /\ marks = << >>
        /\ DocMarkIds(doc) = << >>
        /\ (Pending(timers) = << >> => activeMarkIndex = -1)

\* a white-space query has replaced one whose marks had an active index: the
\* marks are gone, the selection of the rescan is still to run
C5_Witness ==
    /\ searchText = <<" ">>
    /\ marks = << >>
    /\ activeMarkIndex > -1
    /\ Pending(timers) # << >>

\* C6: in regex mode with a query that is no valid pattern the scan gives no
\* marks and no error: the mark list is empty, no mark is left in the
\* document, the text of the document is what it was, and once the deferred
\* selection of the rescan has run the active index is -1
C6_InvalidPatternNoMarks ==
    (options.useRegex /\ ~ParseRegex(searchText).ok) =>
        /\ marks = << >>
        /\ DocMarkIds(doc) = << >>
        /\ DocText(doc) = DocText(page)
        /\ (Pending(timers) = << >> => activeMarkIndex = -1)

\* an invalid pattern has replaced a query whose marks had an active index
C6_Witness ==
    /\ options.useRegex
    /\ searchText = <<"(">>
    /\ marks = << >>
    /\ activeMarkIndex > -1
    /\ Pending(timers) # << >>

\* C7: after materialize and clear the text of the document, read in document
\* order, is what it was before the scan
C7_ClearRestoresText ==
    last = "cleared" => DocText(doc) = DocText(page)

\* marks were made, two of them in one text node, and have been cleared
C7_Witness ==
    /\ last = "cleared"
    /\ Len(marks) >= 3
    /\ DocMarkIds(doc) = << >>

\* C8: clearHighlights applied a second time to the same mark list leaves the
\* document as the first application left it
C8_ClearIdempotent == [][last = "cleared" => doc' = doc]_vars

\* a list of marks has been cleared twice
C8_Witness ==
    /\ last = "cleared twice"
    /\ Len(marks) >= 2

\* the matches of the scan in the document as loaded, in document order
ExpectedMatches ==
    LET regex == CompileRule(searchText, options)
    IN IF IsBlank(searchText) \/ ~regex.ok THEN << >>
       ELSE LET ranges == matchedRanges(page, regex.atoms, options, scrollY)
            IN [i \in 1..Len(ranges) |->
                   SubText(page[ranges[i].e].kids[ranges[i].k].text,
                           ranges[i].s, ranges[i].t)]

\* C9: after a scan the mark list is in document order and the i-th mark
\* wraps the i-th matched substring
C9_MarksInDocumentOrder ==
    last = "scanned" =>
        /\ marks = DocMarkIds(doc)
        /\ Len(marks) = Len(ExpectedMatches)
        /\ \A i \in 1..Len(marks) : MarkText(doc, marks[i]) = ExpectedMatches[i]

\* a scan with several matches in one text node and matches in another
C9_Witness ==
    /\ last = "scanned"
    /\ \E e \in 1..Len(doc) : Len(KidMarkIds(doc[e].kids)) >= 2
    /\ \E e1, e2 \in 1..Len(doc) :
          e1 # e2 /\ KidMarkIds(doc[e1].kids) # << >> /\ KidMarkIds(doc[e2].kids) # << >>
    /\ \E i, j \in 1..Len(marks) : MarkText(doc, marks[i]) # MarkText(doc, marks[j])

\* C10: after a close, until the next open or query change, no mark is left
\* in the document, the mark list is empty and the active index is -1
C10_ClosedStaysInactive ==
    last = "close" =>
        /\ marks = << >>
        /\ DocMarkIds(doc) = << >>
        /\ activeMarkIndex = -1

\* C11: when the finder has been closed and opened again and the selection
\* of the marks of the unchanged query runs, the active index becomes the one
\* the close found if the new mark list has that index, else the index of
\* the mark nearest the centre of the window, and -1 without marks
C11_ReopenRestoresIndex ==
    [][(/\ HandleClosestMark
        /\ cached.state = "reopened"
        /\ isVisible
        /\ searchText = cached.queryText
        /\ Head(timers).newMarks = marks
        /\ Len(Pending(timers)) = 1)
       => activeMarkIndex' =
             IF marks = << >> THEN -1
             ELSE IF cached.activeIndex \in 0..(Len(marks) - 1) THEN cached.activeIndex
             ELSE getClosestMarkIndex(marks, doc, scrollY)]_vars

\* C12: the default selection for a mark list that is not empty is index 0
\* when the window is scrolled to the very top or no mark of the list lies
\* fully inside the window, and otherwise the index of a mark inside the
\* window that no other mark inside it is nearer the centre than
C12_DefaultSelection ==
    [][(HandleClosestMark /\ Head(timers).newMarks # << >>)
       => LET newMarks == Head(timers).newMarks
              rect == [i \in 1..Len(newMarks) |-> MarkRect(doc, newMarks[i], scrollY)]
              inside == {i \in 1..Len(newMarks) : isInViewport(rect[i])}
              selected == activeMarkIndex' + 1
          IN IF scrollY = 0 \/ inside = {}
             THEN selected = 1
             ELSE /\ selected \in inside
                  /\ \A j \in inside :
                        DistanceFromCenter2(rect[selected]) <= DistanceFromCenter2(rect[j])]_vars

(***************************************************************************)
(* What a scan is expected to find, stated on the text of the nodes        *)
(***************************************************************************)
\* the characters c and d are the same, up to case when ic
SameChar(c, d, ic) == c = d \/ (ic /\ Fold(c) = Fold(d))

\* the query q stands in the text t at offset p
OccursAt(q, t, p, ic) ==
    /\ p + Len(q) <= Len(t)
    /\ \A i \in 1..Len(q) : SameChar(q[i], t[p + i], ic)

\* the occurrences of q as a substring of t from offset p on, left to right
\* and not overlapping: pairs <<start, end>> of offsets
RECURSIVE PlainOccurrences(_, _, _, _)
PlainOccurrences(q, t, p, ic) ==
    IF p + Len(q) > Len(t) THEN << >>
    ELSE IF OccursAt(q, t, p, ic)
    THEN <<<<p, p + Len(q)>>>> \o PlainOccurrences(q, t, p + Len(q), ic)
    ELSE PlainOccurrences(q, t, p + 1, ic)

\* the text nodes a scan looks into: not blank, not hidden, not the text of
\* a mark or of the finder, inside the window when only the window is searched
IsScanned(d, e, k, opts, sy) ==
    /\ AcceptNode(d, e, k, opts, sy)
    /\ d[e].kids[k].id = 0
    /\ ~d[e].widget

\* the ranges of the occurrences occ[e][k] of the nodes, in document order
RECURSIVE FlattenRanges(_, _, _)
FlattenRanges(occ, e, k) ==
    IF e > Len(occ) THEN << >>
    ELSE IF k > Len(occ[e]) THEN FlattenRanges(occ, e + 1, 1)
    ELSE [i \in 1..Len(occ[e][k]) |->
             [e |-> e, k |-> k, s |-> occ[e][k][i][1], t |-> occ[e][k][i][2]]]
         \o FlattenRanges(occ, e, k + 1)

\* the document and the mark list with a mark around every one of the ranges
Marked(d, ranges) == Materialize(d, ranges, {}, Len(ranges), << >>)

\* the occurrences of the query as a plain substring in the nodes of the page
PlainRanges ==
    FlattenRanges(
        [e \in 1..Len(page) |-> [k \in 1..Len(page[e].kids) |->
            IF IsScanned(page, e, k, options, scrollY)
            THEN PlainOccurrences(searchText, page[e].kids[k].text, 0, ~options.preserveCase)
            ELSE << >>]], 1, 1)

\* C13: without useRegex and wholeWord a query that is not blank is matched
\* literally: the marks of a scan are exactly the occurrences of the query as
\* a plain substring of each scanned text node, left to right and not
\* overlapping, all of them
C13_LiteralMatchesAreSubstrings ==
    (last = "scanned" /\ ~options.useRegex /\ ~options.wholeWord /\ ~IsBlank(searchText))
        => /\ doc = Marked(page, PlainRanges).doc
           /\ marks = Marked(page, PlainRanges).marks

\* a literal scan for a query with a metacharacter that found the query more
\* than once in one text node
C13_Witness ==
    /\ last = "scanned"
    /\ ~options.useRegex /\ ~options.wholeWord
    /\ Range(searchText) \cap MetaChars # {}
    /\ \E e \in 1..Len(doc) : Len(KidMarkIds(doc[e].kids)) >= 2

\* offset x of the text t is the edge of a word: of the characters before
\* and after it exactly one is a word character (the ends of the text count
\* as no word character)
IsWordEdge(t, x) ==
    LET left == IF x = 0 THEN " " ELSE t[x]
        right == IF x = Len(t) THEN " " ELSE t[x + 1]
    IN IsWordChar(left) # IsWordChar(right)

\* the occurrences of q in t from offset p on that have the edge of a word at
\* both ends, left to right and not overlapping
RECURSIVE WholeWordOccurrences(_, _, _, _)
WholeWordOccurrences(q, t, p, ic) ==
    IF p + Len(q) > Len(t) THEN << >>
    ELSE IF OccursAt(q, t, p, ic) /\ IsWordEdge(t, p) /\ IsWordEdge(t, p + Len(q))
    THEN <<<<p, p + Len(q)>>>> \o WholeWordOccurrences(q, t, p + Len(q), ic)
    ELSE WholeWordOccurrences(q, t, p + 1, ic)

WholeWordRanges ==
    FlattenRanges(
        [e \in 1..Len(page) |-> [k \in 1..Len(page[e].kids) |->
            IF IsScanned(page, e, k, options, scrollY)
            THEN WholeWordOccurrences(searchText, page[e].kids[k].text, 0,
                                      ~options.preserveCase)
            ELSE << >>]], 1, 1)

\* the scan of "Cat cats category" for the whole word "cat"
CatWholeWordScan ==
    /\ last = "scanned"
    /\ page = CatPage
    /\ searchText = <<"c", "a", "t">>
    /\ ~options.useRegex /\ options.wholeWord

\* C14: without useRegex and with wholeWord an occurrence of the query is
\* marked only when the edge of a word lies at both of its ends; "cat" in
\* "Cat cats category", whatever the case, is marked once, at "Cat"
C14_WholeWordOnly ==
    /\ (last = "scanned" /\ ~options.useRegex /\ options.wholeWord /\ ~IsBlank(searchText))
          => /\ doc = Marked(page, WholeWordRanges).doc
             /\ marks = Marked(page, WholeWordRanges).marks
    /\ (CatWholeWordScan /\ ~options.preserveCase)
          => /\ Len(KidMarkIds(doc[1].kids)) = 1
             /\ doc[1].kids[2] = MarkNode(marks[1], <<"C", "a", "t">>)

\* "cat" has been searched as a whole word in "Cat cats category", whatever
\* the case, and "Cat" is marked
C14_Witness ==
    /\ CatWholeWordScan
    /\ ~options.preserveCase
    /\ Len(KidMarkIds(doc[1].kids)) = 1

\* a text and a document with every letter in its canonical case
FoldText(t) == [i \in 1..Len(t) |-> Fold(t[i])]

FoldDoc(d) ==
    [e \in 1..Len(d) |->
        [d[e] EXCEPT !.kids = [k \in 1..Len(@) |-> [@[k] EXCEPT !.text = FoldText(@)]]]]

\* the text has the characters of the query, the wildcard standing for any
ExactlyTheQuery(text, q) ==
    /\ Len(text) = Len(q)
    /\ \A i \in 1..Len(q) : q[i] = "." \/ q[i] = text[i]

\* the scan of "Cat cats cat" for the whole word "cat" in its own case
CatPreserveCaseScan ==
    /\ last = "scanned"
    /\ page = CatPage
    /\ searchText = <<"c", "a", "t">>
    /\ ~options.useRegex /\ options.wholeWord /\ options.preserveCase

\* C15: with preserveCase every mark has the characters of the query in the
\* case of the query; without it the marks are those of the same scan of the
\* page and the query with the case of the letters taken away.  This holds
\* in literal and in regex mode, whatever the other flags.  "cat" as a whole
\* word in "Cat cats cat" with preserveCase marks the last "cat" only.
C15_CaseFollowsPreserveCase ==
    /\ (last = "scanned" /\ options.preserveCase)
          => \A i \in 1..Len(marks) :
                 IF options.useRegex
                 THEN ExactlyTheQuery(MarkText(doc, marks[i]), searchText)
                 ELSE MarkText(doc, marks[i]) = searchText
    /\ (last = "scanned" /\ ~options.preserveCase)
          => LET folded == highlightText(FoldText(searchText),
                                         [options EXCEPT !.preserveCase = TRUE],
                                         FoldDoc(page), scrollY, {})
             IN FoldDoc(doc) = folded.doc /\ marks = folded.marks
    /\ CatPreserveCaseScan
          => /\ Len(KidMarkIds(doc[2].kids)) = 1
             /\ doc[2].kids[2] = MarkNode(marks[Len(marks)], <<"c", "a", "t">>)
             /\ doc[2].kids[1].text = <<"C", "a", "t", " ", "c", "a", "t", "s", " ">>

\* "cat" has been searched as a whole word and in its own case in
\* "Cat cats cat", and one "cat" is marked
C15_Witness ==
    /\ CatPreserveCaseScan
    /\ Len(KidMarkIds(doc[2].kids)) = 1

\* C16: with useRegex the scan does not depend on wholeWord: the document
\* and the mark list are those of the scan with wholeWord the other way
\* round, for every query, page and value of preserveCase and onlyViewport
C16_WholeWordIgnoredInRegex ==
    (last = "scanned" /\ options.useRegex)
        => LET other == highlightText(searchText, [options EXCEPT !.wholeWord = ~@],
                                      page, scrollY, {})
           IN doc = other.doc /\ marks = other.marks

\* a regex scan with wholeWord has marked "ca", which is nowhere a whole word
C16_Witness ==
    /\ last = "scanned"
    /\ options.useRegex /\ options.wholeWord
    /\ searchText = <<"c", "a">>
    /\ Len(marks) >= 2

\* the e-th element of the page lies inside the window as a whole, in the
\* coordinates of the page
FullyInside(d, e, sy) ==
    /\ d[e].y >= sy
    /\ d[e].y + d[e].h <= sy + InnerHeight
    /\ ElemWidth <= InnerWidth

\* the page with the elements hidden that do not lie inside the window as a
\* whole
HideOutside(d, sy) ==
    [e \in 1..Len(d) |-> [d[e] EXCEPT !.hidden = @ \/ ~FullyInside(d, e, sy)]]

\* the child nodes of the elements
KidsOf(d) == [e \in 1..Len(d) |-> d[e].kids]

\* C17: with onlyViewport the marks are those of a scan of the page without
\* the elements that are not inside the window as a whole (cut by its edge
\* or out of sight); without onlyViewport the scan is the same wherever the
\* window stands
C17_ViewportFilter ==
    /\ (last = "scanned" /\ options.onlyViewport)
          => LET inside == highlightText(searchText, [options EXCEPT !.onlyViewport = FALSE],
                                         HideOutside(page, scrollY), scrollY, {})
             IN /\ KidsOf(doc) = KidsOf(inside.doc)
                /\ marks = inside.marks
                /\ \A i \in 1..Len(marks) : FullyInside(page, ParentOf(doc, marks[i]), scrollY)
    /\ (last = "scanned" /\ ~options.onlyViewport)
          => \A sy \in 0..MaxScrollY(page) :
                 LET there == highlightText(searchText, options, page, sy, {})
                 IN doc = there.doc /\ marks = there.marks

\* a scan of the window only has marks, and none in an element with a match
\* that the lower edge of the window cuts
C17_Witness ==
    /\ last = "scanned"
    /\ page = WindowPage
    /\ scrollY = 0
    /\ options.onlyViewport /\ ~options.preserveCase /\ ~options.wholeWord
    /\ searchText = <<"a">>
    /\ Len(marks) = 2
    /\ KidMarkIds(doc[3].kids) = << >>

\* C18: in every reachable state the elements of the finder hold no mark and
\* their text nodes are as they were loaded, whatever the query
C18_NoMarkInsideWidget ==
    \A e \in 1..Len(doc) :
        doc[e].widget => (KidMarkIds(doc[e].kids) = << >> /\ doc[e].kids = page[e].kids)

\* a query that the text of the finder holds has marks in the page
C18_Witness ==
    /\ searchText = <<"a">>
    /\ Len(marks) >= 3
    /\ \E e \in 1..Len(doc) : doc[e].widget /\ "a" \in Range(KidsText(doc[e].kids))

\* a document without the identities of its marks
Shape(d) ==
    [e \in 1..Len(d) |->
        [d[e] EXCEPT !.kids = [k \in 1..Len(@) |->
            IF @[k].id = 0 THEN @[k] ELSE [@[k] EXCEPT !.id = 1]]]]

\* the document and the mark list are those of a scan of the page as it was
\* loaded, for the query and the flags of the next state: every mark in the
\* document is in the mark list, and no other mark is anywhere
IsFreshScan ==
    LET fresh == highlightText(searchText', options', page, scrollY, {})
    IN /\ Shape(doc') = Shape(fresh.doc)
       /\ marks' = DocMarkIds(doc')
       /\ Len(marks') = Len(fresh.marks)

\* C19: every change of an option flag rescans in full: after it the
\* document and the mark list are those of a scan of the loaded page for the
\* current query under the new flags, with no mark of the scan before
C19_OptionChangeRescans ==
    [][options' # options => IsFreshScan]_vars

\* the last rescan came from a toggle (a selection is waiting behind another
\* one and no write is), preserveCase and wholeWord are both set and "a" has
\* the one mark that these flags leave
C19_Witness ==
    /\ Len(timers) >= 2
    /\ \A i \in 1..Len(timers) : timers[i].kind = "select"
    /\ timers[Len(timers)].newMarks = marks
    /\ searchText = <<"a">>
    /\ options.preserveCase /\ options.wholeWord /\ ~options.useRegex
    /\ Len(marks) = 1

\* C20: the step of a query change itself leaves the document and the mark
\* list of a scan for the new query, while the write of the query is still
\* to come; and the write, when it runs, changes neither the query nor the
\* document nor the mark list
C20_RescanIndependentOfStore ==
    [][/\ (\E value \in Queries : HandleSearchTextChange(value))
             => (IsFreshScan /\ input' = input)
       /\ SetSearchInput => UNCHANGED <<searchText, doc, marks>>]_vars

\* the marks of the typed query are there and its write is still to come
C20_Witness ==
    /\ searchText = <<"a">>
    /\ Len(marks) >= 3
    /\ input # searchText
    /\ \E i \in 1..Len(timers) : timers[i] = StoreTimer(searchText)

\* C21: in every reachable state the marks attached to the document are the
\* marks of the current mark list, in the same order, and every step that
\* changes the query or the flags leaves the document and the mark list of a
\* scan of the page as it was loaded: no mark of an earlier scan is left, and
\* no text is missed because a mark of an earlier scan still held it
C21_MarksAreTheAttachedMarks ==
    /\ [](marks = DocMarkIds(doc))
    /\ [][(searchText' # searchText \/ options' # options) => IsFreshScan]_vars

\* a rescan has replaced the marks of an earlier scan, whose selection is
\* still to run: the document holds the new marks and none of the old ones
C21_Witness ==
    /\ marks # << >>
    /\ marks = DocMarkIds(doc)
    /\ options.useRegex
    /\ \E i \in 1..Len(timers) :
          /\ timers[i].newMarks # << >>
          /\ Range(timers[i].newMarks) \cap Range(marks) = {}

\* C22: when the selection of a scan runs after a later rescan has replaced
\* that scan's marks (the selection of the later scan is still waiting), it
\* leaves the active index as it is and restyles no mark of the document
C22_SupersededSelectionHasNoEffect ==
    [][(/\ HandleClosestMark
        /\ Len(Pending(timers)) >= 2
        /\ Head(timers).newMarks # << >>)
       => /\ activeMarkIndex' = activeMarkIndex
          /\ Shape(doc') = Shape(doc)]_vars

\* the members of a sequence whose index is not in the set
RECURSIVE Without(_, _, _)
Without(seq, skip, i) ==
    IF i > Len(seq) THEN << >>
    ELSE (IF i \in skip THEN << >> ELSE <<seq[i]>>) \o Without(seq, skip, i + 1)

\* C23: when surroundContents throws for some of the matched ranges, the
\* document and the mark list after the scan are those with a mark around
\* every other matched range and around no other text: the mark list holds
\* the marks of the document in document order, one for each range that was
\* wrapped, and the text of the document is what it was
C23_FailedWrapDropsOneMatch ==
    (last = "scanned" /\ faults.node = {})
        => LET wrapped == Without(PageRanges, faults.wrap, 1)
           IN /\ Shape(doc) = Shape(Marked(page, wrapped).doc)
              /\ marks = DocMarkIds(doc)
              /\ Len(marks) = Len(PageRanges) - Cardinality(faults.wrap)
              /\ DocText(doc) = DocText(page)

\* of three or more matched ranges one that is neither the first nor the last
\* could not be wrapped, and the others are marked
C23_Witness ==
    /\ last = "scanned"
    /\ Len(PageRanges) >= 3
    /\ \E i \in 2..(Len(PageRanges) - 1) : faults.wrap = {i}
    /\ Len(marks) = Len(PageRanges) - 1

\* the ranges in the text nodes whose examination does not throw
QuietRanges ==
    LET ranges == PageRanges
    IN Without(ranges, {i \in 1..Len(ranges) : <<ranges[i].e, ranges[i].k>> \in faults.node}, 1)

\* C24: when the examination of one text node throws, that node has no
\* marks and the scan goes on: every match in the other text nodes is marked
C24_NodeFaultSkipsOneNode ==
    (last = "scanned" /\ faults.wrap = {})
        => /\ Shape(doc) = Shape(Marked(page, QuietRanges).doc)
           /\ marks = DocMarkIds(doc)
           /\ Len(marks) = Len(QuietRanges)

\* C25: after a scan no mark lies in an element that is not displayed or not
\* visible, be it by its own computed style or by an element above it
C25_HiddenTextNeverMarked ==
    last = "scanned" =>
        \A e \in 1..Len(doc) :
            (page[e].hidden \/ page[e].inHidden) => KidMarkIds(doc[e].kids) = << >>

\* C26: a next or a previous command given while the mark list is empty
\* changes nothing: the mark list stays empty, the active index is what it
\* was (-1 where it was -1), no mark is styled and the page does not scroll
C26_NavigationWithoutMarksIsNoOp ==
    [][((NextCommand \/ PreviousCommand) /\ Len(marks) = 0)
       => /\ marks' = << >>
          /\ activeMarkIndex' = activeMarkIndex
          /\ doc' = doc
          /\ scrollY' = scrollY]_vars

\* Enter has been pressed without marks: the index is -1, no mark is in the
\* document
C26_Witness ==
    /\ last = "next"
    /\ marks = << >>
    /\ activeMarkIndex = -1
    /\ DocMarkIds(doc) = << >>
    /\ searchText = EmptyText
    /\ input # EmptyText

\* C27: whatever commands were given and however they were interleaved with
\* the deferred callbacks, in a state where no callback is pending the active
\* index is -1 exactly when there are no marks, and otherwise lies in
\* 0..markCount-1
C27_QuiescentStateIsConsistent ==
    timers = << >> =>
        /\ (activeMarkIndex = -1) <=> (Len(marks) = 0)
        /\ Len(marks) # 0 => activeMarkIndex \in 0..(Len(marks) - 1)

\* all callbacks have run after a rescan whose mark lay outside the window:
\* it has the index 0 and the page has scrolled to it
C27_Witness ==
    /\ timers = << >>
    /\ searchText = <<"(">>
    /\ ~options.useRegex
    /\ Len(marks) = 1
    /\ activeMarkIndex = 0
    /\ scrollY > 0

\* the query the user typed last: the writes are made in the order in which
\* the queries were typed, so it is the value of the youngest write that is
\* still to come, and the stored value when there is none
LastTyped ==
    LET writes == {i \in 1..Len(timers) : timers[i].kind = "store"}
    IN IF writes = {} THEN input
       ELSE timers[CHOOSE i \in writes : \A j \in writes : j <= i].value

\* a document without the identities and the colours of its marks
Unstyled(d) ==
    [e \in 1..Len(d) |->
        [d[e] EXCEPT !.kids = [k \in 1..Len(@) |->
            IF @[k].id = 0 THEN @[k] ELSE MarkNode(1, @[k].text)]]]

\* the next state has the marks of a scan of the loaded page for its query,
\* whatever their colours, and the mark list holds them
HasMarksOfQuery ==
    LET fresh == highlightText(searchText', options', page, scrollY, {})
    IN /\ Unstyled(doc') = Unstyled(fresh.doc)
       /\ marks' = DocMarkIds(doc')

\* C28: a close empties the query in memory and leaves the stored query as it
\* is; and when the closed finder is opened, the query is the one the user
\* typed last and the document and the mark list are those of a scan for it,
\* whether or not the write of that query has completed
C28_ReopenRestoresQuery ==
    [][/\ CloseFinder => (input' = input /\ searchText' = EmptyText)
       /\ (OpenFinder /\ ~isVisible) => (searchText' = LastTyped /\ HasMarksOfQuery)]_vars

\* C29: a toggle of the flag k gives the stored options with k the other way
\* round and the three other flags as they were, and a second toggle of k
\* gives back the options that the first one found
C29_ToggleFlipsOneFlag ==
    [][\A k \in OptionKeys :
          ToggleOption(k)
             => /\ options'[k] = ~options[k]
                /\ \A j \in OptionKeys \ {k} : options'[j] = options[j]
                /\ toggleOption(options', k) = options]_vars

\* two flags have been set from the defaults and the other two are as they
\* were
C29_Witness ==
    /\ options.wholeWord /\ options.onlyViewport
    /\ ~options.preserveCase /\ ~options.useRegex
    /\ Len(timers) >= 2
    /\ \A i \in 1..Len(timers) : timers[i].kind = "select"

\* the states after one, two, ... k next commands from the index, document
\* and scroll offset s, with the mark list ms
RECURSIVE AfterNexts(_, _, _)
AfterNexts(ms, s, k) ==
    IF k = 0 THEN << >>
    ELSE LET t == handleNextMark(ms, s.activeMarkIndex, s.doc, s.scrollY)
         IN <<t>> \o AfterNexts(ms, t, k - 1)

\* the indices in the mark list ms of the marks that carry the emphasis
\* colour in the document d
Emphasised(ms, d) ==
    {i \in 0..(Len(ms) - 1) :
        \E e \in 1..Len(d) : \E k \in 1..Len(d[e].kids) :
            d[e].kids[k].id = ms[i + 1] /\ d[e].kids[k].bg = "#fc9636"}

\* C30: in a state with marks, the active index in range and no selection
\* pending, count next commands emphasise every mark, each of them once, and
\* end at the index they started from; and a previous command after a next
\* command gives back the index and the emphasised mark from before the two
C30_NavigationCyclesThroughAllMarks ==
    (Len(marks) >= 1 /\ activeMarkIndex \in 0..(Len(marks) - 1) /\ Pending(timers) = << >>)
        => LET here == Navigated(activeMarkIndex, doc, scrollY)
               count == Len(marks)
               run == AfterNexts(marks, here, count)
               back == handlePreviousMark(marks, run[1].activeMarkIndex, run[1].doc,
                                          run[1].scrollY)
           IN /\ {run[j].activeMarkIndex : j \in 1..count} = 0..(count - 1)
              /\ \A j \in 1..count :
                    run[j].activeMarkIndex \in Emphasised(marks, run[j].doc)
              /\ run[count].activeMarkIndex = activeMarkIndex
              /\ back.activeMarkIndex = activeMarkIndex
              /\ activeMarkIndex \in Emphasised(marks, back.doc)
              /\ Emphasised(marks, doc) = {activeMarkIndex}
                    => Emphasised(marks, back.doc) = {activeMarkIndex}

\* the user has gone round the three marks of "a" with next commands and is
\* at the first one again; nothing is pending
C30_Witness ==
    /\ last = "next"
    /\ Len(marks) = 3
    /\ activeMarkIndex = 0
    /\ Emphasised(marks, doc) = {0}
    /\ timers = << >>

\* the places of the marks of an element: the offsets, in the text of the
\* element, at which each mark begins and ends
RECURSIVE KidPositions(_, _)
KidPositions(kids, offset) ==
    IF kids = << >> THEN << >>
    ELSE LET end == offset + Len(Head(kids).text)
         IN (IF Head(kids).id # 0 THEN <<<<offset, end>>>> ELSE << >>)
            \o KidPositions(Tail(kids), end)

MarkPositions(d) == [e \in 1..Len(d) |-> KidPositions(d[e].kids, 0)]

\* C31: after a rescan, whatever scans came before it, the marks lie over
\* the text positions that a scan of the document as loaded marks for the
\* same query and flags, and the mark list holds them
C31_RescanIsHistoryIndependent ==
    [][last' = "rescanned"
       => LET fresh == highlightText(searchText', options', page, scrollY, {})
          IN /\ MarkPositions(doc') = MarkPositions(fresh.doc)
             /\ marks' = DocMarkIds(doc')
             /\ DocText(doc') = DocText(page)]_vars

\* C32: an open command given while the finder is open leaves the query in
\* memory, the mark list and the active index as they are, also while the
\* write of a typed query is still to come
C32_OpenWhileOpenChangesNothing ==
    [][(OpenFinder /\ isVisible) => UNCHANGED <<searchText, marks, activeMarkIndex>>]_vars

====
